---- MODULE Spec2Model ----
(***************************************************************************)
(* Frame-loop lifecycle of src/src/main.rs: startup (lines 85-166) and the *)
(* event-loop closure (lines 168-238).  GPU objects are modelled by the    *)
(* descriptors they were created from; the device is a resource counter    *)
(* (how many swap chains, pipelines and buffers it was asked to create and *)
(* how many times it was dropped).  Floating point literals of the source  *)
(* are written in tenths (0.5 is 5, 1.0 is 10).                            *)
(***************************************************************************)
EXTENDS Integers, Sequences, FiniteSets, TLC

\* Number of events the windowing system delivers to the closure in one run.
MaxEvents == 3

\* window.id() of the one window main creates, and the ids an event may carry.
OurWindow == 1
WindowIds == {1, 2}

\* Sizes a window can report (window.inner_size(), WindowEvent::Resized).
Sizes == {<<0, 0>>, <<0, 300>>, <<400, 300>>, <<800, 600>>}
InitSizes == {<<400, 300>>, <<800, 600>>}

ElementStates == {"Pressed", "Released"}
KeyCodes == {"None", "Escape", "A"}

\* Result<SwapChainFrame, SwapChainError> of swap_chain.get_current_frame().
AcquireResults == {"Ok", "Timeout", "Outdated", "Lost", "OutOfMemory"}

\* The unwrap() calls of startup, in program order.
StartupStages == {"window", "adapter", "device", "vs_spirv", "fs_spirv"}

VERTICES ==
    << [position |-> <<0, 5, 0, 10>>,   color |-> <<10, 0, 0, 10>>],
       [position |-> <<-5, -5, 0, 10>>, color |-> <<0, 10, 0, 10>>],
       [position |-> <<5, -5, 0, 10>>,  color |-> <<0, 0, 10, 10>>] >>

\* Vertex::desc(): stride and the two Float4 attributes (offsets in bytes).
VertexDesc ==
    [stride |-> 32, step_mode |-> "Vertex",
     attributes |-> << [offset |-> 0,  shader_location |-> 0, format |-> "Float4"],
                       [offset |-> 16, shader_location |-> 1, format |-> "Float4"] >>]

VARIABLES
    phase,            \* "Start", "Running", "Terminated" (run ended), "Panicked"
    size,             \* window.inner_size() at startup
    control_flow,     \* the event loop's ControlFlow: "Poll" or "Exit"
    pc,               \* position inside the RedrawRequested arm, "Idle" outside it
    sc_desc,          \* the SwapChainDescriptor
    swap_chain,       \* descriptor the current swap chain was created from
    render_pipeline,  \* descriptor the render pipeline was created from
    vertex_buffer,    \* descriptor the vertex buffer was created from
    device,           \* resource counters of the device
    frames,           \* SwapChainFrames acquired and not yet dropped
    acquire,          \* result of the last get_current_frame()
    encoder,          \* commands recorded in the current command encoder
    queue,            \* command buffers submitted to the queue
    trace             \* events delivered to the closure so far

vars == <<phase, size, control_flow, pc, sc_desc, swap_chain, render_pipeline,
          vertex_buffer, device, frames, acquire, encoder, queue, trace>>

gpu == <<sc_desc, swap_chain, render_pipeline, vertex_buffer>>
redraw == <<frames, acquire, encoder, queue>>

NoDesc == [usage |-> "None", format |-> "None", width |-> 0, height |-> 0,
           present_mode |-> "None"]
NoPipeline == [format |-> "None", color_blend |-> "None", alpha_blend |-> "None",
               primitive_topology |-> "None", vertex_buffers |-> <<>>,
               sample_count |-> 0]
NoBuffer == [label |-> "None", contents |-> <<>>, usage |-> "None"]

Init ==
    /\ phase = "Start"
    /\ size \in InitSizes
    /\ control_flow = "Poll"
    /\ pc = "Idle"
    /\ sc_desc = NoDesc
    /\ swap_chain = NoDesc
    /\ render_pipeline = NoPipeline
    /\ vertex_buffer = NoBuffer
    /\ device = [swap_chains |-> 0, render_pipelines |-> 0, buffers |-> 0,
                 dropped |-> 0]
    /\ frames = 0
    /\ acquire = "None"
    /\ encoder = <<>>
    /\ queue = <<>>
    /\ trace = <<>>

----------------------------------------------------------------------------
\* main, lines 86-166: every step succeeds and the event loop starts.
Startup ==
    /\ phase = "Start"
    /\ sc_desc' = [usage |-> "OUTPUT_ATTACHMENT", format |-> "Bgra8UnormSrgb",
                   width |-> size[1], height |-> size[2],
                   present_mode |-> "Mailbox"]
    /\ swap_chain' = sc_desc'
    /\ vertex_buffer' = [label |-> "Vertex Buffer", contents |-> VERTICES,
                         usage |-> "VERTEX"]
    /\ render_pipeline' = [format |-> sc_desc'.format,
                           color_blend |-> "REPLACE", alpha_blend |-> "REPLACE",
                           primitive_topology |-> "TriangleList",
                           vertex_buffers |-> <<VertexDesc>>,
                           sample_count |-> 1]
    /\ device' = [swap_chains |-> 1, render_pipelines |-> 1, buffers |-> 1,
                  dropped |-> 0]
    /\ phase' = "Running"
    /\ UNCHANGED <<size, control_flow, pc, redraw, trace>>

\* One of the unwrap() calls of startup panics.  The device exists only after
\* request_device succeeded; unwinding out of main then drops it.
StartupFail ==
    /\ phase = "Start"
    /\ \E stage \in StartupStages :
         device' = [device EXCEPT !.swap_chains =
                                     IF stage \in {"vs_spirv", "fs_spirv"} THEN 1 ELSE 0,
                                  !.dropped =
                                     IF stage \in {"vs_spirv", "fs_spirv"} THEN 1 ELSE 0]
    /\ phase' = "Panicked"
    /\ UNCHANGED <<size, control_flow, pc, gpu, redraw, trace>>

----------------------------------------------------------------------------
\* Events, as the closure's `event` parameter sees them.
Ev(kind, w, event, st, key, sz) ==
    [kind |-> kind, window_id |-> w, event |-> event, state |-> st,
     virtual_keycode |-> key, size |-> sz]

\* ControlFlow::Exit is sticky in the event loop: once set, what the closure
\* writes to control_flow (line 177 writes Poll on every call) is discarded.
StickyExit(old, new) == IF old = "Exit" THEN "Exit" ELSE new

\* The closure is called with one event at a time and runs to completion.
Deliver(ev, cf) ==
    /\ phase = "Running"
    /\ pc = "Idle"
    /\ Len(trace) < MaxEvents
    /\ trace' = Append(trace, ev)
    /\ control_flow' = StickyExit(control_flow, cf)

\* Line 183.
CloseRequested(w) ==
    /\ Deliver(Ev("WindowEvent", w, "CloseRequested", "None", "None", <<0, 0>>),
               IF w = OurWindow THEN "Exit" ELSE "Poll")
    /\ UNCHANGED <<phase, size, pc, gpu, device, redraw>>

\* Lines 184-191.
KeyboardInput(w, st, key) ==
    /\ Deliver(Ev("WindowEvent", w, "KeyboardInput", st, key, <<0, 0>>),
               IF w = OurWindow /\ st = "Pressed" /\ key = "Escape"
               THEN "Exit" ELSE "Poll")
    /\ UNCHANGED <<phase, size, pc, gpu, device, redraw>>

\* Faulty variant of Resized: the resize is also applied while a frame is being recorded.
ResizedMidFrame(w, sz) ==
    /\ phase = "Running"
    /\ pc \in {"Idle", "Recording"}
    /\ Len(trace) < MaxEvents
    /\ trace' = Append(trace, Ev("WindowEvent", w, "Resized", "None", "None", sz))
    /\ control_flow' = StickyExit(control_flow, "Poll")
    /\ IF w = OurWindow
       THEN /\ sc_desc' = [sc_desc EXCEPT !.width = sz[1], !.height = sz[2]]
            /\ swap_chain' = sc_desc'
            /\ device' = [device EXCEPT !.swap_chains = @ + 1]
       ELSE UNCHANGED <<sc_desc, swap_chain, device>>
    /\ UNCHANGED <<phase, size, pc, render_pipeline, vertex_buffer, redraw>>

\* Faulty variant of Resized: the resize also picks another pixel format.
ResizedChangesFormat(w, sz) ==
    /\ Deliver(Ev("WindowEvent", w, "Resized", "None", "None", sz), "Poll")
    /\ IF w = OurWindow
       THEN /\ sc_desc' = [sc_desc EXCEPT !.width = sz[1], !.height = sz[2],
                                          !.format = "Bgra8Unorm"]
            /\ swap_chain' = sc_desc'
            /\ device' = [device EXCEPT !.swap_chains = @ + 1]
       ELSE UNCHANGED <<sc_desc, swap_chain, device>>
    /\ UNCHANGED <<phase, size, pc, render_pipeline, vertex_buffer, redraw>>

\* Faulty variant of Resized: the resize also re-creates the render pipeline.
ResizedRebuildsPipeline(w, sz) ==
    /\ Deliver(Ev("WindowEvent", w, "Resized", "None", "None", sz), "Poll")
    /\ IF w = OurWindow
       THEN /\ sc_desc' = [sc_desc EXCEPT !.width = sz[1], !.height = sz[2]]
            /\ swap_chain' = sc_desc'
            /\ device' = [device EXCEPT !.swap_chains = @ + 1,
                                        !.render_pipelines = @ + 1]
       ELSE UNCHANGED <<sc_desc, swap_chain, device>>
    /\ UNCHANGED <<phase, size, pc, render_pipeline, vertex_buffer, redraw>>

\* Lines 192-196.
Resized(w, sz) ==
    /\ Deliver(Ev("WindowEvent", w, "Resized", "None", "None", sz), "Poll")
    /\ IF w = OurWindow
       THEN /\ sc_desc' = [sc_desc EXCEPT !.width = sz[1], !.height = sz[2]]
            /\ swap_chain' = sc_desc'
            /\ device' = [device EXCEPT !.swap_chains = @ + 1]
       ELSE UNCHANGED <<sc_desc, swap_chain, device>>
    /\ UNCHANGED <<phase, size, pc, render_pipeline, vertex_buffer, redraw>>

\* Line 197 (any other window event) and line 236 (any other event).
OtherEvent(kind, w) ==
    /\ Deliver(Ev(kind, w, "Other", "None", "None", <<0, 0>>), "Poll")
    /\ UNCHANGED <<phase, size, pc, gpu, device, redraw>>

\* Line 199: the RedrawRequested arm is entered.
RedrawRequested(w) ==
    /\ Deliver(Ev("RedrawRequested", w, "None", "None", "None", <<0, 0>>), "Poll")
    /\ pc' = "Acquiring"
    /\ UNCHANGED <<phase, size, gpu, device, redraw>>

\* Lines 200-203: get_current_frame().expect(..).output
\* Any SwapChainError panics in expect(); unwinding drops the closure and with
\* it the device.  pc stays where the arm was abandoned.
AcquireFrame ==
    /\ phase = "Running"
    /\ pc = "Acquiring"
    /\ \E r \in AcquireResults :
         /\ acquire' = r
         /\ IF r = "Ok"
            THEN /\ frames' = frames + 1
                 /\ pc' = "Recording"
                 /\ UNCHANGED <<phase, device>>
            ELSE /\ phase' = "Panicked"
                 /\ device' = [device EXCEPT !.dropped = @ + 1]
                 /\ UNCHANGED <<frames, pc>>
    /\ UNCHANGED <<size, control_flow, gpu, encoder, queue, trace>>

Cmd(op, args) == [op |-> op, args |-> args]

\* Faulty variant of Record: the draw covers two of the three vertices.
RecordTwoVertices ==
    /\ phase = "Running"
    /\ pc = "Recording"
    /\ encoder' = << [op |-> "begin_render_pass", args |-> <<1, 2, 3, 10>>],
                     [op |-> "set_pipeline", args |-> <<>>],
                     [op |-> "set_vertex_buffer", args |-> <<0>>],
                     [op |-> "draw", args |-> <<0, 2, 0, 1>>] >>
    /\ pc' = "Submitting"
    /\ UNCHANGED <<phase, size, control_flow, gpu, device, frames, acquire,
                   queue, trace>>

\* Lines 205-232: the command encoder and its one render pass.
Record ==
    /\ phase = "Running"
    /\ pc = "Recording"
    /\ encoder' = << Cmd("begin_render_pass", <<1, 2, 3, 10>>),
                     Cmd("set_pipeline", <<>>),
                     Cmd("set_vertex_buffer", <<0>>),
                     Cmd("draw", <<0, 3, 0, 1>>) >>
    /\ pc' = "Submitting"
    /\ UNCHANGED <<phase, size, control_flow, gpu, device, frames, acquire,
                   queue, trace>>

\* Line 234: queue.submit(Some(encoder.finish()))
Submit ==
    /\ phase = "Running"
    /\ pc = "Submitting"
    /\ queue' = Append(queue, encoder)
    /\ encoder' = <<>>
    /\ pc' = "Presented"
    /\ UNCHANGED <<phase, size, control_flow, gpu, device, frames, acquire,
                   trace>>

\* Faulty variant of Present: the frame outlives the RedrawRequested arm.
PresentKeepsFrame ==
    /\ phase = "Running"
    /\ pc = "Presented"
    /\ pc' = "Idle"
    /\ UNCHANGED <<phase, size, control_flow, gpu, device, frames, acquire,
                   encoder, queue, trace>>

\* Line 235: `frame` goes out of scope; dropping it presents it.
Present ==
    /\ phase = "Running"
    /\ pc = "Presented"
    /\ frames' = frames - 1
    /\ pc' = "Idle"
    /\ UNCHANGED <<phase, size, control_flow, gpu, device, acquire, encoder,
                   queue, trace>>

\* Line 168/238: with control_flow = Exit the event loop stops; the closure,
\* which owns the device (`move`), is dropped with everything it captured.
LoopExit ==
    /\ phase = "Running"
    /\ pc = "Idle"
    /\ control_flow = "Exit"
    /\ phase' = "Terminated"
    /\ device' = [device EXCEPT !.dropped = @ + 1]
    /\ UNCHANGED <<size, control_flow, pc, gpu, redraw, trace>>

Next ==
    \/ Startup
    \/ StartupFail
    \/ \E w \in WindowIds : CloseRequested(w)
    \/ \E w \in WindowIds, st \in ElementStates, key \in KeyCodes :
          KeyboardInput(w, st, key)
    \/ \E w \in WindowIds, sz \in Sizes : Resized(w, sz)
    \/ \E w \in WindowIds, kind \in {"WindowEvent", "Other"} : OtherEvent(kind, w)
    \/ \E w \in WindowIds : RedrawRequested(w)
    \/ AcquireFrame
    \/ Record
    \/ Submit
    \/ Present
    \/ LoopExit

Spec == Init /\ [][Next]_vars

\* The closure runs each handler to its end and the event loop leaves once
\* control_flow is Exit.
FairSpec ==
    /\ Spec
    /\ WF_vars(AcquireFrame)
    /\ WF_vars(Record)
    /\ WF_vars(Submit)
    /\ WF_vars(Present)
    /\ WF_vars(LoopExit)

----------------------------------------------------------------------------
\* Reading the delivered events.
IsOurs(ev) == ev.kind = "WindowEvent" /\ ev.window_id = OurWindow

CloseSignal(ev) ==
    /\ IsOurs(ev)
    /\ \/ ev.event = "CloseRequested"
       \/ ev.event = "KeyboardInput" /\ ev.state = "Pressed"
                                     /\ ev.virtual_keycode = "Escape"

ResizeSignal(ev) == IsOurs(ev) /\ ev.event = "Resized"
NonZero(sz) == sz[1] > 0 /\ sz[2] > 0

Last == trace[Len(trace)]
Delivered == trace' # trace
Closed == \E i \in DOMAIN trace : CloseSignal(trace[i])
OurResizes == SelectSeq(trace, ResizeSignal)
NonZeroResize(ev) == ResizeSignal(ev) /\ NonZero(ev.size)

\* The latest resize signal had size (0, 0).
LastResizeZero ==
    /\ Len(OurResizes) > 0
    /\ OurResizes[Len(OurResizes)].size = <<0, 0>>

----------------------------------------------------------------------------
\* C1: a resize signal with size (0, 0) creates no swap chain and suspends the
\* loop (suspended: the latest resize signal had size (0, 0)), no frame is
\* acquired while it is suspended, and the next resize signal with width > 0
\* and height > 0 ends the suspension and creates the swap chain with that size.
C1_ZeroResizeSuspends ==
    /\ [][(Delivered /\ ResizeSignal(Last') /\ Last'.size = <<0, 0>>)
            => device'.swap_chains = device.swap_chains]_vars
    /\ [][LastResizeZero => frames' = frames /\ queue' = queue]_vars
    /\ [][(Delivered /\ NonZeroResize(Last'))
            => /\ device'.swap_chains = device.swap_chains + 1
               /\ <<swap_chain'.width, swap_chain'.height>> = Last'.size
               /\ ~LastResizeZero']_vars

\* C2: an acquisition that times out returns the loop to Idle, still running,
\* with nothing rebuilt.
C2_TimeoutSkipsTick ==
    [][(phase = "Running" /\ pc = "Acquiring" /\ acquire' = "Timeout")
         => /\ phase' = "Running"
            /\ pc' = "Idle"
            /\ UNCHANGED <<gpu, device>>]_vars

\* C3: an acquisition that finds the surface lost re-creates the swap chain
\* before anything else happens (a fatal end only after that was tried).
C3_LostReconfigures ==
    [][(phase = "Running" /\ pc = "Acquiring" /\ acquire' = "Lost")
         => device'.swap_chains = device.swap_chains + 1]_vars

\* C4: after a close signal the loop reaches Terminated, control_flow never
\* leaves Exit, Terminated is final, and the device is dropped exactly once.
C4_CloseTerminatesOnce ==
    /\ Closed ~> (phase = "Terminated")
    /\ [][Closed => control_flow' = "Exit"]_vars
    /\ [][phase = "Terminated" => phase' = "Terminated"]_vars
    /\ [](phase = "Terminated" => device.dropped = 1)
    /\ [](device.dropped <= 1)

\* C5: at most one frame is held; none is held when a redraw starts or when
\* the frame is acquired, exactly one from acquisition to the end of the arm.
C5_OneFrameOutstanding ==
    /\ frames <= 1
    /\ pc \in {"Idle", "Acquiring"} => frames = 0
    /\ pc \in {"Recording", "Submitting", "Presented"} => frames = 1

C5_Witness == pc = "Recording" /\ Len(queue) >= 1

\* C6: the swap chain is re-created by the running loop only between redraws,
\* with no frame held before or after.
C6_ResizeAtLoopBoundary ==
    [][(phase = "Running" /\ (swap_chain' # swap_chain
                               \/ device'.swap_chains # device.swap_chains))
         => /\ pc = "Idle" /\ pc' = "Idle"
            /\ frames = 0 /\ frames' = 0
            /\ device'.swap_chains = device.swap_chains + 1]_vars

C6_Witness ==
    /\ Len(queue) >= 1
    /\ Len(trace) > 0 /\ ResizeSignal(Last)
    /\ device.swap_chains = 2
    /\ swap_chain.width # size[1]

\* C7: once the pipeline exists its colour format is the format of the
\* swap chain descriptor and of the swap chain, and an event of the running
\* loop changes neither format, presentation mode nor usage of the descriptor.
C7_FormatMatches ==
    /\ [](device.render_pipelines >= 1
            => /\ render_pipeline.format = sc_desc.format
               /\ render_pipeline.format = swap_chain.format)
    /\ [][phase = "Running"
            => /\ sc_desc'.format = sc_desc.format
               /\ sc_desc'.present_mode = sc_desc.present_mode
               /\ sc_desc'.usage = sc_desc.usage]_vars

C7_Witness ==
    /\ phase = "Running"
    /\ Len(OurResizes) >= 2
    /\ <<sc_desc.width, sc_desc.height>> # size
    /\ render_pipeline.format = "Bgra8UnormSrgb"

\* C8: after startup the number of swap chains created is one plus the number
\* of resize signals with width > 0 and height > 0; the run 800x600, resize to
\* 400x300, close ends with two swap chains created and the device dropped once.
C8_ConfigureCount ==
    /\ phase \in {"Running", "Terminated"}
         => device.swap_chains = 1 + Len(SelectSeq(trace, NonZeroResize))
    /\ ( /\ phase = "Terminated"
         /\ size = <<800, 600>>
         /\ Len(trace) = 2
         /\ NonZeroResize(trace[1]) /\ trace[1].size = <<400, 300>>
         /\ CloseSignal(trace[2]) )
         => device.swap_chains = 2 /\ device.dropped = 1

\* C9: every recorded command buffer holds exactly one draw, of vertices
\* [0, 3) (the whole vertex buffer) and instances [0, 1), recorded after the
\* clear to (0.1, 0.2, 0.3, 1.0), set_pipeline and set_vertex_buffer.
OneDraw(cb) ==
    /\ Cardinality({i \in DOMAIN cb : cb[i].op = "draw"}) = 1
    /\ \E d \in DOMAIN cb :
         /\ cb[d] = Cmd("draw", <<0, 3, 0, 1>>)
         /\ cb[d].args[2] = Len(vertex_buffer.contents)
         /\ \E c \in 1..(d - 1) : cb[c] = Cmd("begin_render_pass", <<1, 2, 3, 10>>)
         /\ \E p \in 1..(d - 1) : cb[p].op = "set_pipeline"
         /\ \E v \in 1..(d - 1) : cb[v].op = "set_vertex_buffer"

C9_SingleDraw ==
    /\ pc \in {"Submitting"} => OneDraw(encoder)
    /\ pc = "Presented" => Len(queue) >= 1
    /\ \A i \in DOMAIN queue : OneDraw(queue[i])

C9_Witness ==
    /\ pc = "Submitting"
    /\ Len(queue) >= 1
    /\ Len(OurResizes) >= 1

\* C10: while the loop runs there is one pipeline and one vertex buffer, the
\* ones startup built, and no step of the loop changes or re-creates them.
C10_PipelineAndBufferFixed ==
    /\ [](phase = "Running"
            => /\ device.render_pipelines = 1
               /\ device.buffers = 1
               /\ vertex_buffer.contents = VERTICES
               /\ render_pipeline.vertex_buffers = <<VertexDesc>>)
    /\ [][phase = "Running"
            => /\ UNCHANGED <<render_pipeline, vertex_buffer>>
               /\ device'.render_pipelines = device.render_pipelines
               /\ device'.buffers = device.buffers]_vars

C10_Witness ==
    /\ phase = "Running"
    /\ Len(queue) >= 1
    /\ \E i \in DOMAIN trace : ResizeSignal(trace[i])
    /\ \E i \in DOMAIN trace : trace[i].event = "KeyboardInput"

====
